---------------------------- MODULE Spec2Model ----------------------------
(***************************************************************************)
(* Model of src/llvmcalltest.cpp: MakeIdentityFunction(AnyTy).             *)
(*                                                                         *)
(* The routine is seven library calls in a row.  Each call is modelled by  *)
(* what the LLVM library does with the objects the routine hands it:       *)
(*   - PointerType::get / FunctionType::get are get-or-create operations   *)
(*     on the type table of the LLVMContext the operand types live in      *)
(*     (types are uniqued per context and owned by the context);           *)
(*   - new Module(name, C) allocates a module and records it in C's set of *)
(*     owned modules (Module's constructor calls C.addModule(this));       *)
(*   - Function::Create(FT, linkage, name, M) allocates a function with    *)
(*     one Argument per parameter of FT and appends it to M, its name      *)
(*     being made unique in M's symbol table;                              *)
(*   - BasicBlock::Create(C, name, F) reads C's label type, allocates a    *)
(*     block and appends it to F;                                          *)
(*   - IRBuilder::CreateRet(V) appends "ret V" at the insertion point.     *)
(*                                                                         *)
(* Heap objects (types, modules, functions, blocks) are identified by      *)
(* their index in the sequence that holds them, so that "the same object"  *)
(* and "an equal object" are different things.                             *)
(***************************************************************************)
EXTENDS Integers, Sequences, FiniteSets, TLC

\* ------------------------------------------------------------------ bounds
\* Calls the harness makes in one run.
MaxCalls == 3
\* Pointer values 1..MaxPtr (and the null pointer) the harness passes to a
\* produced function.
MaxPtr == 2

\* The harness threads that may call the exported routine.
Threads == {"t1", "t2"}

\* --------------------------------------------------------------- constants
\* The null pointer; object ids start at 1.
NULL == 0

\* AddressSpace::Tracked and two of its siblings (codegen_shared.h).
Tracked == "Tracked"
Generic == "Generic"
Derived == "Derived"

ExternalLinkage == "ExternalLinkage"
InternalLinkage == "InternalLinkage"

\* ------------------------------------------------------------------- state
VARIABLES
    harness,       \* "seq": calls are made one after another; "conc": freely
    ctxLive,       \* jl_LLVMContext has been constructed
    ctxTypes,      \* the type objects owned by the context the descriptors
                   \* live in (jl_LLVMContext, once constructed): id -> type
    typeMap,       \* the context's uniquing tables: the ids get() can find
    ownedModules,  \* the context's OwnedModules set (module ids)
    modules,       \* heap: module id -> module
    functions,     \* heap: function id -> function
    blocks,        \* heap: basic block id -> block
    frame,         \* per thread: position and locals of the running call
    calls,         \* calls started so far
    returned,      \* what the harness got back, in order of return
    invoked,       \* last execution of a produced function by the harness
    crashed        \* the process has died

vars == <<harness, ctxLive, ctxTypes, typeMap, ownedModules, modules, functions,
          blocks, frame, calls, returned, invoked, crashed>>

\* ------------------------------------------------------------------- types
\* llvm::Type: an id kind, the contained types (pointee of a pointer; return
\* type followed by the parameter types of a function type) and, for a
\* pointer, its address space.
BaseTy(k) == [kind |-> k, contained |-> <<>>, as |-> "none"]

PtrTy(elem, as) == [kind |-> "ptr", contained |-> <<elem>>, as |-> as]

FnTy(ret, params) == [kind |-> "fn", contained |-> <<ret>> \o params, as |-> "none"]

\* The element types of the harness's context, with the label type every
\* context holds.
ElementTypes == << BaseTy("label"), BaseTy("i32"), BaseTy("jlvalue") >>

\* The first of the type objects `ids` of `types` that equals ty, NULL when
\* there is none.
Lookup(types, ids, ty) ==
    IF \E i \in ids : types[i] = ty
    THEN CHOOSE i \in ids : types[i] = ty /\ \A j \in ids : types[j] = ty => i <= j
    ELSE NULL

LabelTyId == Lookup(ElementTypes, DOMAIN ElementTypes, BaseTy("label"))
Int32TyId == Lookup(ElementTypes, DOMAIN ElementTypes, BaseTy("i32"))
JlValueTyId == Lookup(ElementTypes, DOMAIN ElementTypes, BaseTy("jlvalue"))

\* The types every context of the harness holds: the element types and the
\* pointer types the harness has descriptors for.
BaseTypes ==
    ElementTypes \o
    << PtrTy(Int32TyId, Generic), PtrTy(JlValueTyId, Generic),
       PtrTy(JlValueTyId, Derived) >>

\* The contexts a call can find: the bare one; one in which codegen has
\* already made the tracked jlvalue pointer (T_prjlvalue); one that also
\* holds the unary function type over it.
InitialTypeTables ==
    { BaseTypes,
      BaseTypes \o << PtrTy(JlValueTyId, Tracked) >>,
      BaseTypes \o << PtrTy(JlValueTyId, Tracked),
                      FnTy(Len(BaseTypes) + 1, << Len(BaseTypes) + 1 >>) >> }

\* AnyTy->getElementType()
getElementType(types, p) == types[p].contained[1]

\* The pointer-type descriptors a caller can hold.
Descriptors == { i \in 1..Len(ctxTypes) : ctxTypes[i].kind = "ptr" }

\* ---------------------------------------------------------- library calls
\* A get() that never consults the uniquing table: every call makes a new
\* type object.
alwaysCreate(types, map, seen, ty) ==
    { [types |-> Append(types, ty),
       map   |-> base \cup {Len(types) + 1},
       id    |-> Len(types) + 1] : base \in {map, seen} }

\* Type *::get(...) on a context: the type object equal to ty when the
\* uniquing table the call looked at (seen) has one, else a new type object,
\* entered in the table.  The call reads the table and later writes it back
\* without any synchronisation, so when the table changed in between, the
\* write either adds to the current table or to the one the call read
\* (losing what was entered meanwhile); the two coincide when nothing ran
\* in between.  The result is the set of possible outcomes.
getOrCreate(types, map, seen, ty) ==
    IF Lookup(types, seen, ty) # NULL
    THEN { [types |-> types, map |-> map, id |-> Lookup(types, seen, ty)] }
    ELSE { [types |-> Append(types, ty),
            map   |-> base \cup {Len(types) + 1},
            id    |-> Len(types) + 1] : base \in {map, seen} }

\* The pointer type asked for in the descriptor's own address space.
SameSpaceTypeOf(types, AnyTy) ==
    PtrTy(getElementType(types, AnyTy), types[AnyTy].as)

\* PointerType::get(AnyTy->getElementType(), AddressSpace::Tracked): the type
\* asked for on line 17.
TrackedTypeOf(types, AnyTy) == PtrTy(getElementType(types, AnyTy), Tracked)

\* FunctionType::get(TrackedTy, {TrackedTy}, false): the type asked for on
\* lines 20-21.
IdentityTypeOf(TrackedTy) == FnTy(TrackedTy, << TrackedTy >>)

\* A module kept from one call to the next: the module of that name when
\* there is one, a new one only otherwise.
ReuseModule(mods, name) ==
    IF \E m \in DOMAIN mods : mods[m].name = name
    THEN [mods |-> mods, id |-> CHOOSE m \in DOMAIN mods : mods[m].name = name]
    ELSE [mods |-> Append(mods, [name |-> name, functions |-> <<>>,
                                 globals |-> <<>>, live |-> TRUE]),
          id   |-> Len(mods) + 1]

\* new llvm::Module("shadow", ...): the module heap with one more module.
AllocModule(mods, name) ==
    [mods |-> Append(mods, [name |-> name, functions |-> <<>>,
                            globals |-> <<>>, live |-> TRUE]),
     id   |-> Len(mods) + 1]

\* The names of the functions of module m (its symbol table).
SymbolsOf(m) == { functions[modules[m].functions[i]].name :
                    i \in 1..Len(modules[m].functions) }

\* Value::setName: the name itself when free in the symbol table, else the
\* name with the first free numeric suffix.
UniqueName(taken, name) ==
    IF name \notin taken THEN name
    ELSE LET free == { k \in 1..(Cardinality(taken) + 1) :
                          (name \o "." \o ToString(k)) \notin taken }
             k == CHOOSE k \in free : \A j \in free : k <= j
         IN  name \o "." \o ToString(k)

\* A function created with internal linkage whatever linkage is asked for.
CreatedInternalFunction(types, FT, linkage, name, M) ==
    [name    |-> UniqueName(SymbolsOf(M), name),
     linkage |-> InternalLinkage,
     ty      |-> FT,
     parent  |-> M,
     args    |-> [i \in 1..(Len(types[FT].contained) - 1) |->
                     [ty |-> types[FT].contained[i + 1]]],
     blocks  |-> <<>>]

\* Function::Create(FT, linkage, name, M): the function object, with one
\* unnamed Argument per parameter type of FT (lines 19-25).
CreatedFunction(types, FT, linkage, name, M) ==
    [name    |-> UniqueName(SymbolsOf(M), name),
     linkage |-> linkage,
     ty      |-> FT,
     parent  |-> M,
     args    |-> [i \in 1..(Len(types[FT].contained) - 1) |->
                     [ty |-> types[FT].contained[i + 1]]],
     blocks  |-> <<>>]

\* A null constant as the operand, in place of the argument.
NullOperand(F) == [kind |-> "null", fn |-> F, idx |-> NULL]

\* &*F->arg_begin(): the first argument of F as an operand (line 28).
FirstArg(F) == [kind |-> "arg", fn |-> F, idx |-> 1]

\* Builder.CreateRet(V): the instruction appended (line 28).
RetInst(V) == [op |-> "ret", operand |-> V]

\* ------------------------------------------------------------------ frames
IdleFrame ==
    [pc |-> "idle", AnyTy |-> NULL, TrackedTy |-> NULL, FT |-> NULL,
     M |-> NULL, F |-> NULL, BB |-> NULL, LabelTy |-> NULL,
     seenTypes |-> {}, seenModules |-> {}]

pcOf(t) == frame[t].pc

\* Positions inside a library call that works on the shared context.
InContextStep == {"in17", "in18", "in21", "in27"}

\* Positions of a call that has started and not ended.
Running == {"L17", "in17", "L18", "in18", "L21", "in21", "L19", "L27",
            "in27", "L28", "L30"}

Init ==
    /\ harness \in {"seq", "conc"}
    /\ ctxLive \in BOOLEAN
    /\ ctxTypes \in InitialTypeTables
    /\ typeMap = DOMAIN ctxTypes
    /\ ownedModules = {}
    /\ modules = <<>>
    /\ functions = <<>>
    /\ blocks = <<>>
    /\ frame = [t \in Threads |-> IdleFrame]
    /\ calls = 0
    /\ returned = <<>>
    /\ invoked = [F |-> NULL, arg |-> NULL, res |-> [defined |-> FALSE, val |-> NULL]]
    /\ crashed = FALSE

\* ----------------------------------------------------------------- actions
\* Calls the harness makes in one run: MaxCalls one after another, or one
\* per thread when nothing orders them.
CallBudget == IF harness = "seq" THEN MaxCalls ELSE Cardinality(Threads)

\* The harness calls MakeIdentityFunction(d) on thread t (line 16).  Under
\* the sequential discipline a call starts only when no call is running.
Call(t, d) ==
    /\ ~crashed
    /\ pcOf(t) = "idle"
    /\ calls < CallBudget
    /\ harness = "seq" => \A u \in Threads : pcOf(u) = "idle"
    /\ frame' = [frame EXCEPT ![t] = [IdleFrame EXCEPT !.pc = "L17", !.AnyTy = d]]
    /\ calls' = calls + 1
    /\ UNCHANGED <<harness, ctxLive, ctxTypes, typeMap, ownedModules, modules,
                   functions, blocks, returned, invoked, crashed>>

\* A null AnyTy checked for and answered with a null handle.
NullReturn(t) ==
    /\ ~crashed
    /\ pcOf(t) = "L17"
    /\ frame[t].AnyTy = NULL
    /\ returned' = Append(returned, [F |-> NULL, AnyTy |-> NULL, M |-> NULL])
    /\ frame' = [frame EXCEPT ![t] = IdleFrame]
    /\ UNCHANGED <<harness, ctxLive, ctxTypes, typeMap, ownedModules, modules,
                   functions, blocks, calls, invoked, crashed>>

\* Line 17 with a null AnyTy: getElementType() loads a field through the
\* null pointer and hands it to an out-of-line call, so the load is executed
\* and the process dies on it.
NullDeref(t) ==
    /\ ~crashed
    /\ pcOf(t) = "L17"
    /\ frame[t].AnyTy = NULL
    /\ frame' = [frame EXCEPT ![t].pc = "fatal"]
    /\ crashed' = TRUE
    /\ UNCHANGED <<harness, ctxLive, ctxTypes, typeMap, ownedModules, modules,
                   functions, blocks, calls, returned, invoked>>

\* Line 17, PointerType::get, first half: look the type up in the table of
\* the context the pointee type lives in.
PointerTypeLookup(t) ==
    /\ ~crashed
    /\ pcOf(t) = "L17"
    /\ frame[t].AnyTy # NULL
    /\ frame' = [frame EXCEPT ![t].pc = "in17", ![t].seenTypes = typeMap]
    /\ UNCHANGED <<harness, ctxLive, ctxTypes, typeMap, ownedModules, modules,
                   functions, blocks, calls, returned, invoked, crashed>>

\* The descriptor itself moved to the tracked address space and used as
\* TrackedTy.
PointerTypeRetag(t) ==
    /\ ~crashed
    /\ pcOf(t) = "in17"
    /\ ctxTypes' = [ctxTypes EXCEPT ![frame[t].AnyTy].as = Tracked]
    /\ frame' = [frame EXCEPT ![t].pc = "L18", ![t].TrackedTy = frame[t].AnyTy,
                              ![t].seenTypes = {}]
    /\ UNCHANGED <<harness, ctxLive, typeMap, ownedModules, modules, functions,
                   blocks, calls, returned, invoked, crashed>>

\* Line 17, second half: TrackedTy is the type found or the one created.
PointerTypeGet(t) ==
    /\ ~crashed
    /\ pcOf(t) = "in17"
    /\ \E r \in getOrCreate(ctxTypes, typeMap, frame[t].seenTypes,
                            TrackedTypeOf(ctxTypes, frame[t].AnyTy)) :
          /\ ctxTypes' = r.types
          /\ typeMap' = r.map
          /\ frame' = [frame EXCEPT ![t].pc = "L18", ![t].TrackedTy = r.id,
                                    ![t].seenTypes = {}]
    /\ UNCHANGED <<harness, ctxLive, ownedModules, modules, functions,
                   blocks, calls, returned, invoked, crashed>>

\* Line 18 when jl_LLVMContext has not been constructed: the Module
\* constructor's addModule goes through the context's null implementation
\* pointer and the process dies.
ModuleNoContext(t) ==
    /\ ~crashed
    /\ pcOf(t) = "L18"
    /\ ~ctxLive
    /\ frame' = [frame EXCEPT ![t].pc = "fatal"]
    /\ crashed' = TRUE
    /\ UNCHANGED <<harness, ctxLive, ctxTypes, typeMap, ownedModules, modules,
                   functions, blocks, calls, returned, invoked>>

\* Module creation under a lock on the context: it waits while another
\* thread is inside a call that works on the context.
ModuleNewLocked(t) ==
    /\ ~crashed
    /\ pcOf(t) = "L18"
    /\ ctxLive
    /\ \A u \in Threads \ {t} : pcOf(u) \notin InContextStep
    /\ LET a == AllocModule(modules, "shadow") IN
          /\ modules' = a.mods
          /\ frame' = [frame EXCEPT ![t].pc = "in18", ![t].M = a.id,
                                    ![t].seenModules = ownedModules]
    /\ UNCHANGED <<harness, ctxLive, ctxTypes, typeMap, ownedModules, functions,
                   blocks, calls, returned, invoked, crashed>>

\* Line 18, new llvm::Module("shadow", jl_LLVMContext), first half: the
\* module is allocated and its constructor reads the context's module set.
ModuleNew(t) ==
    /\ ~crashed
    /\ pcOf(t) = "L18"
    /\ ctxLive
    /\ LET a == AllocModule(modules, "shadow") IN
          /\ modules' = a.mods
          /\ frame' = [frame EXCEPT ![t].pc = "in18", ![t].M = a.id,
                                    ![t].seenModules = ownedModules]
    /\ UNCHANGED <<harness, ctxLive, ctxTypes, typeMap, ownedModules, functions,
                   blocks, calls, returned, invoked, crashed>>

\* Line 18, second half: the constructor's addModule(this) writes the
\* context's module set back, unsynchronised like the type table.
ModuleRegister(t) ==
    /\ ~crashed
    /\ pcOf(t) = "in18"
    /\ \E base \in {ownedModules, frame[t].seenModules} :
          ownedModules' = base \cup {frame[t].M}
    /\ frame' = [frame EXCEPT ![t].pc = "L21", ![t].seenModules = {}]
    /\ UNCHANGED <<harness, ctxLive, ctxTypes, typeMap, modules, functions, blocks,
                   calls, returned, invoked, crashed>>

\* Lines 20-21, FunctionType::get, first half.
FunctionTypeLookup(t) ==
    /\ ~crashed
    /\ pcOf(t) = "L21"
    /\ frame' = [frame EXCEPT ![t].pc = "in21", ![t].seenTypes = typeMap]
    /\ UNCHANGED <<harness, ctxLive, ctxTypes, typeMap, ownedModules, modules,
                   functions, blocks, calls, returned, invoked, crashed>>

\* Lines 20-21, second half.
FunctionTypeGet(t) ==
    /\ ~crashed
    /\ pcOf(t) = "in21"
    /\ \E r \in getOrCreate(ctxTypes, typeMap, frame[t].seenTypes,
                            IdentityTypeOf(frame[t].TrackedTy)) :
          /\ ctxTypes' = r.types
          /\ typeMap' = r.map
          /\ frame' = [frame EXCEPT ![t].pc = "L19", ![t].FT = r.id,
                                    ![t].seenTypes = {}]
    /\ UNCHANGED <<harness, ctxLive, ownedModules, modules, functions,
                   blocks, calls, returned, invoked, crashed>>

\* Lines 19-25, Function::Create(..., ExternalLinkage, "identity", M): the
\* function is allocated and appended to M's function list.
FunctionCreate(t) ==
    /\ ~crashed
    /\ pcOf(t) = "L19"
    /\ LET f == Len(functions) + 1
           m == frame[t].M
       IN /\ functions' = Append(functions,
                 CreatedFunction(ctxTypes, frame[t].FT, ExternalLinkage,
                                 "identity", m))
          /\ modules' = [modules EXCEPT ![m].functions = Append(@, f)]
          /\ frame' = [frame EXCEPT ![t].pc = "L27", ![t].F = f]
    /\ UNCHANGED <<harness, ctxLive, ctxTypes, typeMap, ownedModules, blocks, calls,
                   returned, invoked, crashed>>

\* Line 27, BasicBlock::Create(jl_LLVMContext, "top", F), first half: the
\* block's type is read from the context.
BasicBlockType(t) ==
    /\ ~crashed
    /\ pcOf(t) = "L27"
    /\ frame' = [frame EXCEPT ![t].pc = "in27",
                              ![t].LabelTy = Lookup(ctxTypes, DOMAIN ctxTypes, BaseTy("label"))]
    /\ UNCHANGED <<harness, ctxLive, ctxTypes, typeMap, ownedModules, modules,
                   functions, blocks, calls, returned, invoked, crashed>>

\* Line 27, second half: the block is allocated and appended to F, and the
\* builder's insertion point is the end of the block.
BasicBlockCreate(t) ==
    /\ ~crashed
    /\ pcOf(t) = "in27"
    /\ LET b == Len(blocks) + 1
           f == frame[t].F
       IN /\ blocks' = Append(blocks,
                 [name |-> "top", ty |-> frame[t].LabelTy, parent |-> f,
                  insts |-> <<>>])
          /\ functions' = [functions EXCEPT ![f].blocks = Append(@, b)]
          /\ frame' = [frame EXCEPT ![t].pc = "L28", ![t].BB = b,
                                    ![t].LabelTy = NULL]
    /\ UNCHANGED <<harness, ctxLive, ctxTypes, typeMap, ownedModules, modules, calls,
                   returned, invoked, crashed>>

\* Line 28, Builder.CreateRet(&*F->arg_begin()).
CreateRet(t) ==
    /\ ~crashed
    /\ pcOf(t) = "L28"
    /\ blocks' = [blocks EXCEPT ![frame[t].BB].insts =
                     Append(@, RetInst(FirstArg(frame[t].F)))]
    /\ frame' = [frame EXCEPT ![t].pc = "L30"]
    /\ UNCHANGED <<harness, ctxLive, ctxTypes, typeMap, ownedModules, modules,
                   functions, calls, returned, invoked, crashed>>

\* A return that disposes of the module, as a scoped owner of M would.
ReturnDisposing(t) ==
    /\ ~crashed
    /\ pcOf(t) = "L30"
    /\ modules' = [modules EXCEPT ![frame[t].M].live = FALSE]
    /\ returned' = Append(returned,
          [F |-> frame[t].F, AnyTy |-> frame[t].AnyTy, M |-> frame[t].M])
    /\ frame' = [frame EXCEPT ![t] = IdleFrame]
    /\ UNCHANGED <<harness, ctxLive, ctxTypes, typeMap, ownedModules,
                   functions, blocks, calls, invoked, crashed>>

\* Line 30, return F.  The harness logs the handle it got with the
\* descriptor it passed; M is logged as history only (the caller is not
\* given it).
Return(t) ==
    /\ ~crashed
    /\ pcOf(t) = "L30"
    /\ returned' = Append(returned,
          [F |-> frame[t].F, AnyTy |-> frame[t].AnyTy, M |-> frame[t].M])
    /\ frame' = [frame EXCEPT ![t] = IdleFrame]
    /\ UNCHANGED <<harness, ctxLive, ctxTypes, typeMap, ownedModules, modules,
                   functions, blocks, calls, invoked, crashed>>

\* ------------------------------------------------- running a function
\* The value of operand V in a call with arguments argv; a null constant
\* is the null pointer.
Eval(V, argv) ==
    IF V.kind = "arg" /\ V.idx \in 1..Len(argv) THEN argv[V.idx] ELSE NULL

\* What function f returns on argv: its entry block is run from its first
\* instruction to the first ret.  The result is undefined when control runs
\* off the end of the block or the function has no body.
Run(f, argv) ==
    LET insts == IF functions[f].blocks = <<>> THEN <<>>
                 ELSE blocks[functions[f].blocks[1]].insts
        rets  == { i \in 1..Len(insts) : insts[i].op = "ret" }
    IN  IF rets = {} THEN [defined |-> FALSE, val |-> NULL]
        ELSE [defined |-> TRUE,
              val |-> Eval(insts[CHOOSE i \in rets : \A j \in rets : i <= j].operand,
                           argv)]

\* The harness runs a function it got back on pointer value p.
Invoke(i, p) ==
    /\ ~crashed
    /\ i \in 1..Len(returned)
    /\ returned[i].F # NULL
    /\ invoked' = [F |-> returned[i].F, arg |-> p, res |-> Run(returned[i].F, <<p>>)]
    /\ UNCHANGED <<harness, ctxLive, ctxTypes, typeMap, ownedModules, modules,
                   functions, blocks, frame, calls, returned, crashed>>

\* ----------------------------------------------------------- specifications
Step(t) ==
    \/ NullDeref(t)
    \/ PointerTypeLookup(t)
    \/ PointerTypeGet(t)
    \/ ModuleNoContext(t)
    \/ ModuleNew(t)
    \/ ModuleRegister(t)
    \/ FunctionTypeLookup(t)
    \/ FunctionTypeGet(t)
    \/ FunctionCreate(t)
    \/ BasicBlockType(t)
    \/ BasicBlockCreate(t)
    \/ CreateRet(t)
    \/ Return(t)

\* The calls themselves, running on the harness threads.
NextCalls ==
    \/ \E t \in Threads, d \in Descriptors \cup {NULL} : Call(t, d)
    \/ \E t \in Threads : Step(t)

Next ==
    \/ NextCalls
    \/ \E i \in 1..MaxCalls, p \in 0..MaxPtr : Invoke(i, p)

\* Calls made one after another, as the harness makes them, and the
\* produced functions run.
InitSeq == Init /\ harness = "seq"

Spec == InitSeq /\ [][Next]_vars

\* Calls made under either discipline: one after another, or from two
\* threads with nothing ordering them.
SpecConc == Init /\ [][NextCalls]_vars

\* ------------------------------------------------------------------ claims
\* What the properties below read off a returned handle.
FnOf(i) == functions[returned[i].F]

ParamTyOf(i) == FnOf(i).args[1].ty

PointeeOf(i) == getElementType(ctxTypes, returned[i].AnyTy)

\* The shape of a function body: per block its name and, per instruction,
\* the opcode and which operand it has.
ShapeOf(f) ==
    [b \in 1..Len(functions[f].blocks) |->
        LET blk == blocks[functions[f].blocks[b]] IN
        [name  |-> blk.name,
         insts |-> [k \in 1..Len(blk.insts) |->
                       [op   |-> blk.insts[k].op,
                        kind |-> blk.insts[k].operand.kind,
                        idx  |-> blk.insts[k].operand.idx]]]]

NoCallRunning == \A t \in Threads : pcOf(t) = "idle"

LiveModules == { m \in DOMAIN modules : modules[m].live }

\* C1: every function returned for a descriptor with pointee T has exactly
\* one parameter, of type tracked-pointer-to-T, returns the type of its
\* parameter, and has a body of one basic block holding one instruction, a
\* return of that parameter.
C1_IdentityFunctionBuilt ==
    \A i \in DOMAIN returned :
        LET f == FnOf(i) IN
        /\ Len(f.args) = 1
        /\ ctxTypes[f.args[1].ty] =
              [kind |-> "ptr", contained |-> << PointeeOf(i) >>, as |-> "Tracked"]
        /\ ctxTypes[f.ty].kind = "fn"
        /\ Len(ctxTypes[f.ty].contained) = 2
        /\ ctxTypes[f.ty].contained[1] = f.args[1].ty
        /\ ctxTypes[f.ty].contained[2] = f.args[1].ty
        /\ Len(f.blocks) = 1
        /\ blocks[f.blocks[1]].parent = returned[i].F
        /\ blocks[f.blocks[1]].insts =
              << [op |-> "ret",
                  operand |-> [kind |-> "arg", fn |-> returned[i].F, idx |-> 1]] >>

\* A function has been returned for a descriptor outside the tracked
\* address space.
C1_Witness ==
    \E i \in DOMAIN returned :
        /\ ctxTypes[returned[i].AnyTy].as = Generic
        /\ ctxTypes[ParamTyOf(i)].as = Tracked

\* C2: two calls with equivalent descriptors return functions of the same
\* name, linkage, signature and body shape that are distinct objects in
\* distinct modules.
C2_EquivalentButSeparate ==
    \A i, j \in DOMAIN returned :
        (i # j /\ ctxTypes[returned[i].AnyTy] = ctxTypes[returned[j].AnyTy]) =>
            /\ FnOf(i).name = FnOf(j).name
            /\ FnOf(i).linkage = FnOf(j).linkage
            /\ ctxTypes[FnOf(i).ty] = ctxTypes[FnOf(j).ty]
            /\ Len(FnOf(i).args) = Len(FnOf(j).args)
            /\ ShapeOf(returned[i].F) = ShapeOf(returned[j].F)
            /\ returned[i].F # returned[j].F
            /\ FnOf(i).blocks # FnOf(j).blocks
            /\ FnOf(i).parent # FnOf(j).parent

\* Two calls with the same descriptor have returned.
C2_Witness ==
    \E i, j \in DOMAIN returned :
        i < j /\ returned[i].AnyTy = returned[j].AnyTy

\* C3: running a returned function on a non-null pointer gives back that
\* pointer, and for a pointer-to-Int32 descriptor the signature is
\* (tracked-pointer-to-Int32) -> tracked-pointer-to-Int32.
C3_RunsAsIdentity ==
    /\ (invoked.F # NULL /\ invoked.arg # NULL) =>
          invoked.res = [defined |-> TRUE, val |-> invoked.arg]
    /\ \A i \in DOMAIN returned :
          PointeeOf(i) = Int32TyId =>
              /\ ctxTypes[FnOf(i).ty].contained = << ParamTyOf(i), ParamTyOf(i) >>
              /\ ctxTypes[ParamTyOf(i)] =
                    [kind |-> "ptr", contained |-> << Int32TyId >>, as |-> "Tracked"]

\* The function made for a pointer-to-Int32 descriptor has been run on the
\* largest pointer value.
C3_Witness ==
    \E i \in DOMAIN returned :
        /\ PointeeOf(i) = Int32TyId
        /\ invoked.F = returned[i].F
        /\ invoked.arg = MaxPtr
        /\ invoked.res.val = MaxPtr

\* C4 as stated: no step changes the context's type registry (the type
\* objects it owns and its uniquing tables).
C4_ContextOnlyRead == [][ctxTypes' = ctxTypes /\ typeMap' = typeMap]_vars

\* C4 as amended: a step never changes or removes what the context already
\* holds, so the caller's descriptor is not mutated; what a call adds is at
\* most one type object per step, entered in the uniquing tables, and its
\* module in the context's module set.
C4_ContextOnlyGrows ==
    [][ /\ Len(ctxTypes') \in {Len(ctxTypes), Len(ctxTypes) + 1}
        /\ \A i \in DOMAIN ctxTypes : ctxTypes'[i] = ctxTypes[i]
        /\ typeMap \subseteq typeMap'
        /\ typeMap' \subseteq DOMAIN ctxTypes'
        /\ ownedModules \subseteq ownedModules'
        /\ \A t \in Threads :
              frame[t].AnyTy # NULL /\ frame'[t].AnyTy = frame[t].AnyTy =>
                  ctxTypes'[frame[t].AnyTy] = ctxTypes[frame[t].AnyTy]
      ]_vars

\* A call has returned having added both of its types to the context.
C4_Witness ==
    \E i \in DOMAIN returned :
        /\ ParamTyOf(i) > Len(BaseTypes)
        /\ FnOf(i).ty = Len(ctxTypes)
        /\ FnOf(i).ty = ParamTyOf(i) + 1
        /\ returned[i].M \in ownedModules

\* C5: a returned function is in the module allocated by its call, has
\* external linkage and is named "identity"; the module is named "shadow"
\* and holds that function and nothing else.
C5_OwnedByShadowModule ==
    \A i \in DOMAIN returned :
        /\ FnOf(i).parent = returned[i].M
        /\ FnOf(i).linkage = "ExternalLinkage"
        /\ FnOf(i).name = "identity"
        /\ modules[returned[i].M].name = "shadow"
        /\ modules[returned[i].M].functions = << returned[i].F >>
        /\ modules[returned[i].M].globals = <<>>

\* A second function has been returned, in the second module.
C5_Witness ==
    /\ Len(returned) = 2
    /\ FnOf(2).parent = 2
    /\ modules[2].functions = << returned[2].F >>

\* C6 as stated: the module of a returned function is recorded nowhere but
\* in the function.
C6_ModuleUnregistered ==
    \A i \in DOMAIN returned : returned[i].M \notin ownedModules

\* What holds of the modules in every state: one per call that got as far
\* as allocating it, a different one for each returned function, each
\* recorded in the context's module set, and reached from no function but
\* its own.
ModulePerCall ==
    /\ Len(modules) =
          Len(returned) + Cardinality({ t \in Threads : frame[t].M # NULL })
    /\ \A i, j \in DOMAIN returned : i # j => returned[i].M # returned[j].M
    /\ \A i \in DOMAIN returned :
          /\ returned[i].M \in ownedModules
          /\ \A f \in DOMAIN functions :
                functions[f].parent = returned[i].M <=> f = returned[i].F
    /\ \A t \in Threads, i \in DOMAIN returned : frame[t].M # returned[i].M

\* C6 as amended: each call allocates one new module, which no other call
\* uses, and no step changes the module of a function already returned;
\* the routine itself registers the module nowhere, but the module's
\* constructor records it in the compilation context's module set, so after
\* the call it is held by the returned function and by the context.
C6_ModulePerCallInContext ==
    /\ []ModulePerCall
    /\ [][ \A i \in DOMAIN returned :
              modules'[returned[i].M] = modules[returned[i].M] ]_vars

\* Three calls have returned, each with its own module in the context's set.
C6_Witness ==
    /\ Len(returned) = 3
    /\ Len(modules) = 3
    /\ ownedModules = {1, 2, 3}

\* C7 as stated: two calls with the same pointee type get two distinct
\* tracked-pointer type objects.
C7_FreshTypePerCall ==
    \A i, j \in DOMAIN returned :
        (i # j /\ PointeeOf(i) = PointeeOf(j)) => ParamTyOf(i) # ParamTyOf(j)

\* C7 as amended: the tracked pointer type is the pointer to the
\* descriptor's pointee type in the tracked address space, whatever the
\* descriptor's address space; it is the context's one type object for that
\* type, owned by the context, so calls with the same pointee type use the
\* same type object.
C7_TrackedTypeUniqued ==
    \A i \in DOMAIN returned :
        /\ ctxTypes[ParamTyOf(i)].kind = "ptr"
        /\ ctxTypes[ParamTyOf(i)].contained = << PointeeOf(i) >>
        /\ ctxTypes[ParamTyOf(i)].as = "Tracked"
        /\ ParamTyOf(i) \in typeMap
        /\ \A k \in DOMAIN ctxTypes :
              ctxTypes[k] = ctxTypes[ParamTyOf(i)] => k = ParamTyOf(i)
        /\ \A j \in DOMAIN returned :
              PointeeOf(i) = PointeeOf(j) => ParamTyOf(i) = ParamTyOf(j)

\* Two calls have returned whose descriptors have the same pointee type and
\* different address spaces.
C7_Witness ==
    \E i, j \in DOMAIN returned :
        /\ i # j
        /\ PointeeOf(i) = PointeeOf(j)
        /\ ctxTypes[returned[i].AnyTy].as # ctxTypes[returned[j].AnyTy].as
        /\ ParamTyOf(i) = ParamTyOf(j)

\* C8: a call with a null descriptor, or without a constructed context,
\* ends in the fatal state and returns nothing; a call with a valid
\* descriptor and a context never ends in the fatal state, and what it
\* returns is a non-null handle to a function with its body.
C8_FatalOrBuilt ==
    /\ \A i \in DOMAIN returned :
          /\ returned[i].F # NULL
          /\ returned[i].AnyTy # NULL
          /\ ctxLive
          /\ Len(FnOf(i).blocks) = 1
          /\ Len(blocks[FnOf(i).blocks[1]].insts) = 1
    /\ \A t \in Threads :
          /\ pcOf(t) = "fatal" => crashed /\ (frame[t].AnyTy = NULL \/ ~ctxLive)
          /\ (pcOf(t) # "idle" /\ frame[t].AnyTy = NULL) => pcOf(t) \in {"L17", "fatal"}
          /\ ~ctxLive => pcOf(t) \in {"idle", "L17", "in17", "L18", "fatal"}
          /\ (pcOf(t) \in Running /\ ~crashed) => ENABLED Step(t)
    /\ calls = Len(returned) + Cardinality({ t \in Threads : pcOf(t) # "idle" })

\* After a call that returned, a call with a null descriptor has died.
C8_Witness ==
    /\ crashed
    /\ Len(returned) >= 1
    /\ \E t \in Threads : pcOf(t) = "fatal" /\ frame[t].AnyTy = NULL /\ ctxLive

\* C9: a thread inside a call is never made to wait, whatever the other
\* thread is doing, so calls from two threads interleave; calls made one
\* after another never overlap.
C9_NoMutualExclusion ==
    /\ \A t \in Threads : (pcOf(t) \in Running /\ ~crashed) => ENABLED Step(t)
    /\ harness = "seq" => Cardinality({ t \in Threads : pcOf(t) \in Running }) <= 1

\* Both threads are inside a library call that works on the context.
C9_Witness ==
    /\ harness = "conc"
    /\ \A t \in Threads : pcOf(t) \in InContextStep
    /\ \E t, u \in Threads : pcOf(t) = "in17" /\ pcOf(u) = "in18"

\* What holds of the modules once calls have returned: with no call
\* running there are as many live modules as calls returned, and the module
\* of each returned function is live and holds that one function, named
\* "identity", whose one block is named "top" and ends in its one
\* instruction, a terminator.
ModulesKept ==
    /\ NoCallRunning => Cardinality(LiveModules) = Len(returned)
    /\ \A i \in DOMAIN returned :
          /\ returned[i].M \in LiveModules
          /\ modules[returned[i].M].functions = << returned[i].F >>
          /\ FnOf(i).name = "identity"
          /\ Len(FnOf(i).blocks) = 1
          /\ blocks[FnOf(i).blocks[1]].name = "top"
          /\ Len(blocks[FnOf(i).blocks[1]].insts) = 1
          /\ blocks[FnOf(i).blocks[1]].insts[1].op = "ret"

\* C10: no module is ever disposed of: after n calls have returned n
\* modules are live, each as ModulesKept says; the number of live modules
\* never decreases, and a returned function, its block and its module are
\* left unchanged by every later step.
C10_ModulesNeverDisposed ==
    /\ []ModulesKept
    /\ [][ /\ LiveModules \subseteq { m \in DOMAIN modules' : modules'[m].live }
           /\ \A i \in DOMAIN returned :
                 /\ returned'[i] = returned[i]
                 /\ functions'[returned[i].F] = functions[returned[i].F]
                 /\ blocks'[FnOf(i).blocks[1]] = blocks[FnOf(i).blocks[1]]
                 /\ modules'[returned[i].M] = modules[returned[i].M]
         ]_vars

\* All the calls of a run have returned and every module made is live.
C10_Witness ==
    /\ NoCallRunning
    /\ Len(returned) = MaxCalls
    /\ Cardinality(LiveModules) = MaxCalls
=============================================================================
